---- MODULE Spec2Model ----
(***************************************************************************)
(* Model of the two salt returners                                         *)
(*   salt/returners/mongo_future_return.py  (virtual name 'mongo')         *)
(*   salt/returners/xmpp_return.py          (virtual name 'xmpp')          *)
(*                                                                         *)
(* Text whose characters the code inspects (dictionary keys, collection    *)
(* names, job ids) is a sequence of one-character strings.  Configuration  *)
(* keys are sequences of name segments: '{0}.{1}'.format(a, b) is the      *)
(* concatenation of the segments of a and b.  Python's None is the value   *)
(* None, the empty string is Empty; both are falsy.                        *)
(***************************************************************************)
EXTENDS Integers, Sequences, FiniteSets, TLC

VARIABLES
    virtualname,  \* __virtualname__ of the module whose code runs
    opts,         \* __opts__ : configuration key -> value or mapping
    salt,         \* TRUE iff 'config.option' in __salt__
    db,           \* the database: collection name -> sequence of documents
    log,          \* the write calls that completed, in order (history)
    last,         \* the most recent call: its inputs and what it returned
    pc,           \* position of the running xmpp returner call
    job,          \* the result record the host agent delivers
    bot,          \* the SendMsgBot session of the running call
    wire          \* what the call did on the network, in order

vars == <<virtualname, opts, salt, db, log, last, pc, job, bot, wire>>

(***************************************************************************)
(* Values                                                                  *)
(***************************************************************************)
None == "<None>"
Empty == ""

\* Python truthiness of a configuration value (a string or None).
Truthy(v) == v # None /\ v # Empty

EmptyDict == <<>>

\* dict.get(key, default)
DictGet(d, key, default) == IF key \in DOMAIN d THEN d[key] ELSE default

(***************************************************************************)
(* _get_options of both returners                                          *)
(***************************************************************************)
\* attrs: option name -> configuration key name
MongoAttrs ==
    [host |-> "host", port |-> "port", db |-> "db",
     username |-> "username", password |-> "password"]

XmppAttrs ==
    [xmpp_profile |-> "profile", from_jid |-> "jid",
     password |-> "password", recipient_jid |-> "recipient"]

Attrs(name) == IF name = "mongo" THEN MongoAttrs ELSE XmppAttrs

\* A call without a record (ret=None) passes NoRet; 'if ret:' treats None
\* and the empty record alike.
NoRet == <<>>

\* ret_config: the segments of the alternate namespace; the empty sequence
\* stands for both '' (record without 'ret_config') and None (no record),
\* which the code only ever tests for truth.
RetConfig(ret) ==
    IF DOMAIN ret # {}
    THEN IF "ret_config" \in DOMAIN ret THEN ret.ret_config ELSE <<>>
    ELSE <<>>

\* cfg(key, default): __salt__['config.option'](key, default) and
\* __opts__.get(key, default) both answer the configured value or the default.
CfgDefault(o, key, default) == DictGet(o, key, default)

\* cfg(key) with no default: config.option answers '' and dict.get None.
Cfg(o, s, key) == DictGet(o, key, IF s THEN Empty ELSE None)

\* ResolveAttr with the two namespaces consulted in the wrong order.
ResolveAttrPrimaryFirst(o, s, name, key, ret_config) ==
    LET c_cfg == CfgDefault(o, <<name>>, EmptyDict)
        primary == DictGet(c_cfg, key, Cfg(o, s, <<name, key>>))
        ret_cfg == CfgDefault(o, ret_config \o <<name>>, EmptyDict)
        alt == DictGet(ret_cfg, key, Cfg(o, s, ret_config \o <<name, key>>))
    IN  IF ret_config # <<>> /\ ~Truthy(primary) THEN alt ELSE primary

\* The value the loop body of _get_options leaves in _attr for one attr.
ResolveAttr(o, s, name, key, ret_config) ==
    LET c_cfg == CfgDefault(o, <<name>>, EmptyDict)
        primary == DictGet(c_cfg, key, Cfg(o, s, <<name, key>>))
    IN  IF ret_config # <<>>
        THEN LET ret_cfg == CfgDefault(o, ret_config \o <<name>>, EmptyDict)
                 alt == DictGet(ret_cfg, key,
                                Cfg(o, s, ret_config \o <<name, key>>))
             IN  IF Truthy(alt) THEN alt ELSE primary
        ELSE primary

\* The loop of _get_options: every attr, falsy values stored as None.
LoopOptions(o, s, name, ret) ==
    [attr \in DOMAIN Attrs(name) |->
        LET _attr == ResolveAttr(o, s, name, Attrs(name)[attr], RetConfig(ret))
        IN  IF ~Truthy(_attr) THEN None ELSE _attr]

\* xmpp only: 'xmpp_profile' is always a key of _options, so the profile
\* is always looked up; a truthy creds mapping overwrites both credentials.
\* creds is only tested for truth, so the falsy answers of the lookup
\* (None, '' and the empty mapping) are all the empty mapping here.
ProfileCreds(o, _options) ==
    IF _options.xmpp_profile = None
    THEN EmptyDict
    ELSE CfgDefault(o, <<_options.xmpp_profile>>, EmptyDict)

CredsTruthy(creds) == DOMAIN creds # {}

ProfileJidKey == "xmpp.jid"
ProfilePasswordKey == "xmpp.password"

ApplyProfile(o, _options) ==
    LET creds == ProfileCreds(o, _options)
    IN  IF CredsTruthy(creds)
        THEN [_options EXCEPT
                 !.from_jid = DictGet(creds, ProfileJidKey, None),
                 !.password = DictGet(creds, ProfilePasswordKey, None)]
        ELSE _options

GetOptions(o, s, name, ret) ==
    IF name = "mongo"
    THEN LoopOptions(o, s, name, ret)
    ELSE ApplyProfile(o, LoopOptions(o, s, name, ret))

(***************************************************************************)
(* Configurations the minion can be started with                           *)
(***************************************************************************)
Absent == "<absent>"

\* The four places a setting can be configured at.
AltSpecific == "alt_specific"
AltDefault == "alt_default"
PrimarySpecific == "primary_specific"
PrimaryDefault == "primary_default"
Levels == {AltSpecific, AltDefault, PrimarySpecific, PrimaryDefault}

Alternative == <<"alternative">>
ProfileName == "xmpp_profile"

\* A truthy value of a setting: it tells where it was configured, except
\* for the profile setting, whose value names the profile mapping.
Configured(key, lvl) == IF key = "profile" THEN ProfileName ELSE lvl

\* The shapes of the profile mapping: none, the documented one, the one
\* whose keys carry the 'xmpp.' prefix.
NoProfile == EmptyDict
DocProfile == [jid |-> "profile_jid", password |-> "profile_password"]
DottedProfile ==
    [k \in {"xmpp.jid", "xmpp.password"} |->
        IF k = "xmpp.jid" THEN "profile_jid" ELSE "profile_password"]
ProfileShapes == {NoProfile, DocProfile, DottedProfile}

\* The configuration in which setting key has, at level lvl, the value
\* f[key][lvl]: Absent (not configured), Empty or "set" (Configured).
SlotValue(f, key, lvl) ==
    IF f[key][lvl] = Empty THEN Empty ELSE Configured(key, lvl)

SpecificMap(f, lvl) ==
    [key \in {k \in DOMAIN f : f[k][lvl] # Absent} |-> SlotValue(f, key, lvl)]

BuildOpts(name, f, profile) ==
    LET keys ==
            {<<name>> : x \in {k \in DOMAIN f : f[k][PrimarySpecific] # Absent}}
            \cup {Alternative \o <<name>> :
                      x \in {k \in DOMAIN f : f[k][AltSpecific] # Absent}}
            \cup {<<name, k>> : k \in {k \in DOMAIN f : f[k][PrimaryDefault] # Absent}}
            \cup {Alternative \o <<name, k>> :
                      k \in {k \in DOMAIN f : f[k][AltDefault] # Absent}}
            \cup {<<ProfileName>> : x \in {p \in {profile} : DOMAIN p # {}}}
    IN  [key \in keys |->
            IF key = <<name>> THEN SpecificMap(f, PrimarySpecific)
            ELSE IF key = Alternative \o <<name>> THEN SpecificMap(f, AltSpecific)
            ELSE IF key = <<ProfileName>> THEN profile
            ELSE IF Len(key) = 2 THEN SlotValue(f, key[2], PrimaryDefault)
            ELSE SlotValue(f, key[3], AltDefault)]

\* How many settings one configuration sets.
MaxAttrs == 1

ConfigKeys(name) == {Attrs(name)[a] : a \in DOMAIN Attrs(name)}

Assignments(name, n, lvls) ==
    UNION {[A -> {g \in [Levels -> {Absent, Empty, "set"}] :
                    \A l \in Levels \ lvls : g[l] = Absent}] :
           A \in {B \in SUBSET ConfigKeys(name) : Cardinality(B) <= n}}

Configs(name, n, lvls) ==
    {BuildOpts(name, f, p) :
        f \in Assignments(name, n, lvls),
        p \in IF name = "xmpp" THEN ProfileShapes ELSE {NoProfile}}

Minion == <<"w", "e", "b", "1">>

OptionRets ==
    {NoRet, [id |-> Minion], [id |-> Minion, ret_config |-> Alternative]}

(***************************************************************************)
(* Specification of _get_options alone                                     *)
(***************************************************************************)
Idle == [op |-> "none"]

InitOptions ==
    /\ virtualname \in {"mongo", "xmpp"}
    /\ opts \in Configs(virtualname, MaxAttrs, Levels)
    /\ salt \in BOOLEAN
    /\ db = <<>>
    /\ log = <<>>
    /\ last = Idle
    /\ pc = "idle"
    /\ job = NoRet
    /\ bot = Idle
    /\ wire = <<>>

CallGetOptions(ret) ==
    /\ last' = [op |-> "_get_options", ret |-> ret,
                options |-> GetOptions(opts, salt, virtualname, ret)]
    /\ UNCHANGED <<virtualname, opts, salt, db, log, pc, job, bot, wire>>

NextOptions == \E ret \in OptionRets : CallGetOptions(ret)

SpecOptions == InitOptions /\ [][NextOptions]_vars

(***************************************************************************)
(* Result payloads: atoms, mappings (key -> payload) and lists             *)
(***************************************************************************)
Atom(v) == [t |-> "atom", v |-> v]
Dict(d) == [t |-> "dict", d |-> d]
List(l) == [t |-> "list", l |-> l]

\* Replace that stops after the first '.', as key.replace('.', '-', 1).
ReplaceFirst(key) ==
    [i \in 1..Len(key) |->
        IF key[i] = "." /\ \A j \in 1..(i - 1) : key[j] # "." THEN "-" ELSE key[i]]

\* key.replace('.', '-')
Replace(key) == [i \in 1..Len(key) |-> IF key[i] = "." THEN "-" ELSE key[i]]

\* _remove_dots(src): every mapping the loop can build.  Two keys of src
\* that differ only in '.' against '-' are written to one key of output and
\* the one iterated last stays; the iteration order of a dict is not fixed.
RECURSIVE RemoveDots(_), RemoveDotsKeys(_, _)
RemoveDotsValue(val) ==
    IF val.t = "dict" THEN {Dict(o) : o \in RemoveDots(val.d)} ELSE {val}

RemoveDotsKeys(src, out) ==
    IF out = {}
    THEN {EmptyDict}
    ELSE LET key == CHOOSE k \in out : TRUE
             vals == UNION {RemoveDotsValue(src[k]) :
                               k \in {k \in DOMAIN src : Replace(k) = key}}
         IN  {(key :> v) @@ rest :
                 v \in vals, rest \in RemoveDotsKeys(src, out \ {key})}

RemoveDots(src) == RemoveDotsKeys(src, {Replace(k) : k \in DOMAIN src})

(***************************************************************************)
(* The mongo returner                                                      *)
(***************************************************************************)
FunKey == <<"f", "u", "n">>
OutKey == <<"o", "u", "t">>

\* _get_conn(ret): the options are resolved, the user is read from the
\* key 'user', the database is selected and, with a truthy user and
\* password, authenticated.  conn[db] raises for a database name None.
ReadUser(_options) == DictGet(_options, "user", None)

GetConn(o, s, ret) ==
    LET _options == GetOptions(o, s, "mongo", ret)
        user == ReadUser(_options)
        password == DictGet(_options, "password", None)
    IN  [options |-> _options,
         mdb |-> _options.db,
         raised |-> _options.db = None,
         authenticated |-> _options.db # None /\ Truthy(user) /\ Truthy(password)]

\* mdb.collection_names(), mdb[col] and col.insert(doc); a collection
\* exists once a document was inserted into it, and keeps its documents in
\* the order of insertion.  The '_id' the driver adds is left out.
Collections(d, mdb) == IF mdb \in DOMAIN d THEN d[mdb] ELSE <<>>

CollectionNames(d, mdb) == DOMAIN Collections(d, mdb)

Documents(d, mdb, col) ==
    IF col \in CollectionNames(d, mdb) THEN Collections(d, mdb)[col] ELSE <<>>

\* Insert that leaves out a document the collection already holds.
InsertOnce(d, mdb, col, doc) ==
    IF \E i \in 1..Len(Documents(d, mdb, col)) : Documents(d, mdb, col)[i] = doc
    THEN d
    ELSE (mdb :> ((col :> Append(Documents(d, mdb, col), doc))
                    @@ Collections(d, mdb))) @@ d

Insert(d, mdb, col, doc) ==
    (mdb :> ((col :> Append(Documents(d, mdb, col), doc)) @@ Collections(d, mdb)))
        @@ d

\* back: the payload as returner sanitizes it
Back(ret) ==
    IF ret.return.t = "dict"
    THEN {Dict(o) : o \in RemoveDots(ret.return.d)}
    ELSE {ret.return}

\* sdata = {ret['jid']: back, 'fun': ret['fun']}, then 'out' if present
SData(ret, back) ==
    LET sdata == (FunKey :> Atom(ret.fun)) @@ (ret.jid :> back)
    IN  IF "out" \in DOMAIN ret
        THEN (OutKey :> Atom(ret.out)) @@ sdata
        ELSE sdata

\* How many write calls one behaviour makes.
MaxDocs == 2

Returner(ret) ==
    LET c == GetConn(opts, salt, ret)
    IN  /\ Len(log) < MaxDocs
        /\ IF c.raised
           THEN /\ last' = [op |-> "returner", ret |-> ret, conn |-> c]
                /\ UNCHANGED <<db, log>>
           ELSE \E back \in Back(ret) :
                    /\ db' = Insert(db, c.mdb, ret.id, SData(ret, back))
                    /\ log' = Append(log, [op |-> "returner", ret |-> ret,
                                           mdb |-> c.mdb, col |-> ret.id])
                    /\ last' = [op |-> "returner", ret |-> ret, conn |-> c]
        /\ UNCHANGED <<virtualname, opts, salt, pc, job, bot, wire>>

SaveLoad(jid, load) ==
    LET c == GetConn(opts, salt, NoRet)
    IN  /\ Len(log) < MaxDocs
        /\ IF c.raised
           THEN UNCHANGED <<db, log>>
           ELSE /\ db' = Insert(db, c.mdb, jid, load)
                /\ log' = Append(log, [op |-> "save_load", load |-> load,
                                       mdb |-> c.mdb, col |-> jid])
        /\ last' = [op |-> "save_load", jid |-> jid, conn |-> c]
        /\ UNCHANGED <<virtualname, opts, salt, pc, job, bot, wire>>

\* The queries the module makes: {} (any document), {key: {'$exists':
\* 'true'}} and {'fun': fun}.
AnyDoc == [q |-> "any"]
HasKey(key) == [q |-> "exists", key |-> key]
RunsFun(fun) == [q |-> "equals", key |-> FunKey, value |-> Atom(fun)]

Matches(doc, query) ==
    CASE query.q = "any" -> TRUE
      [] query.q = "exists" -> query.key \in DOMAIN doc
      [] query.q = "equals" ->
            query.key \in DOMAIN doc /\ doc[query.key] = query.value

\* col.find_one(query): the first document, in the order of insertion,
\* that the query accepts; NoDoc stands for None.
NoDoc == <<>>

FindOne(docs, query) ==
    LET hits == {i \in 1..Len(docs) : Matches(docs[i], query)}
    IN  IF hits = {} THEN NoDoc
        ELSE docs[CHOOSE i \in hits : \A j \in hits : i <= j]

\* The loop of get_jid and get_fun: the collections whose find_one found a
\* document, each with that document.
Scan(d, mdb, query) ==
    [col \in {c \in CollectionNames(d, mdb) :
                 FindOne(Documents(d, mdb, c), query) # NoDoc} |->
        FindOne(Documents(d, mdb, col), query)]

\* int(name) of Python 2 accepts blanks around an optionally signed,
\* non-empty run of decimal digits, and raises ValueError otherwise.
Digits == {"0", "1", "2", "3", "4", "5", "6", "7", "8", "9"}
Blanks == {" ", "\t", "\n", "\r"}

RECURSIVE LStrip(_)
LStrip(name) ==
    IF name # <<>> /\ Head(name) \in Blanks THEN LStrip(Tail(name)) ELSE name

RECURSIVE RStrip(_)
RStrip(name) ==
    IF name # <<>> /\ name[Len(name)] \in Blanks
    THEN RStrip(SubSeq(name, 1, Len(name) - 1))
    ELSE name

IntParses(name) ==
    LET t == RStrip(LStrip(name))
        u == IF t # <<>> /\ Head(t) \in {"+", "-"} THEN Tail(t) ELSE t
    IN  u # <<>> /\ \A i \in 1..Len(u) : u[i] \in Digits

\* The length a collection name must have to be taken for a job id.
JidLen == 20

\* The test both listings make on a name.
LooksLikeJid(name) == Len(name) = JidLen /\ IntParses(name)

\* MinionsLoop that skips every name of length JidLen, numeric or not.
RECURSIVE MinionsLoopSkipsLength(_)
MinionsLoopSkipsLength(names) ==
    IF names = <<>> THEN <<>>
    ELSE IF Len(Head(names)) = JidLen THEN MinionsLoopSkipsLength(Tail(names))
    ELSE <<Head(names)>> \o MinionsLoopSkipsLength(Tail(names))

\* The loops of get_minions and get_jids over collection_names().
RECURSIVE MinionsLoop(_)
MinionsLoop(names) ==
    IF names = <<>> THEN <<>>
    ELSE IF LooksLikeJid(Head(names)) THEN MinionsLoop(Tail(names))
    ELSE <<Head(names)>> \o MinionsLoop(Tail(names))

RECURSIVE JidsLoop(_)
JidsLoop(names) ==
    IF names = <<>> THEN <<>>
    ELSE IF LooksLikeJid(Head(names))
         THEN <<Head(names)>> \o JidsLoop(Tail(names))
         ELSE JidsLoop(Tail(names))

\* collection_names() lists every collection once, in no promised order.
Listings(S) ==
    {l \in [1..Cardinality(S) -> S] : \A i, j \in DOMAIN l : l[i] = l[j] => i = j}

\* A read helper: _get_conn(ret=None), then the result (none if it raised).
Read(op, arg, result) ==
    LET c == GetConn(opts, salt, NoRet)
    IN  /\ last' = IF c.raised
                   THEN [op |-> op, arg |-> arg, conn |-> c]
                   ELSE [op |-> op, arg |-> arg, conn |-> c, result |-> result]
        /\ UNCHANGED <<virtualname, opts, salt, db, log, pc, job, bot, wire>>

Mdb == GetConn(opts, salt, NoRet).mdb

GetLoad(jid) == Read("get_load", jid, FindOne(Documents(db, Mdb, jid), AnyDoc))

GetJid(jid) == Read("get_jid", jid, Scan(db, Mdb, HasKey(jid)))

GetFun(fun) == Read("get_fun", fun, Scan(db, Mdb, RunsFun(fun)))

GetMinions ==
    \E names \in Listings(CollectionNames(db, Mdb)) :
        Read("get_minions", names, MinionsLoop(names))

GetJids ==
    \E names \in Listings(CollectionNames(db, Mdb)) :
        Read("get_jids", names, JidsLoop(names))

(***************************************************************************)
(* Specification of the mongo returner and its read helpers                *)
(***************************************************************************)
OnlyAt(lvls) == [l \in Levels |-> IF l \in lvls THEN "set" ELSE Absent]

\* Nothing configured; a database; a database with credentials; a database
\* and another one for the alternative configuration.
MongoConfigs ==
    {BuildOpts("mongo", f, NoProfile) :
        f \in {<<>>,
               [db |-> OnlyAt({PrimaryDefault})],
               [db |-> OnlyAt({PrimaryDefault}),
                username |-> OnlyAt({PrimaryDefault}),
                password |-> OnlyAt({PrimarySpecific})],
               [db |-> OnlyAt({PrimaryDefault, AltDefault})]}}

Minion2 == <<"d", "b", "-", "2">>
Jid(n) == [i \in 1..JidLen |-> IF i = JidLen THEN n ELSE "2"]
Jids == {Jid("1"), Jid("2")}
Funs == {"test.ping", "state.sls"}

\* Jobs of one minion, one job of another, one with an output mode and
\* one returned under the alternative configuration.
MongoRets ==
    [id : {Minion}, jid : Jids, fun : Funs, return : {Atom("True")}]
    \cup [id : {Minion2}, jid : {Jid("1")}, fun : {"test.ping"},
          return : {Atom("True")}]
    \cup [id : {Minion}, jid : {Jid("1")}, fun : {"test.ping"},
          return : {Atom("True")}, out : {"json"}]
    \cup [id : {Minion}, jid : {Jid("1")}, fun : {"test.ping"},
          return : {Atom("True")}, ret_config : {Alternative}]

Loads == {(FunKey :> Atom("test.ping"))}

InitMongo ==
    /\ virtualname = "mongo"
    /\ opts \in MongoConfigs
    /\ salt \in BOOLEAN
    /\ db = <<>>
    /\ log = <<>>
    /\ last = Idle
    /\ pc = "idle"
    /\ job = NoRet
    /\ bot = Idle
    /\ wire = <<>>

NextMongo ==
    \/ \E ret \in MongoRets : Returner(ret)
    \/ \E load \in Loads : SaveLoad(Jid("1"), load)
    \/ \E jid \in Jids : GetLoad(jid)
    \/ \E jid \in Jids : GetJid(jid)
    \/ \E fun \in Funs : GetFun(fun)
    \/ GetMinions
    \/ GetJids

SpecMongo == InitMongo /\ [][NextMongo]_vars

(***************************************************************************)
(* Specification of one record delivered to the mongo returner, once or    *)
(* repeatedly, for every shape of its 'return' value                       *)
(***************************************************************************)
DotKeys == {<<"a", ".", "b">>, <<"a", "-", "b">>, <<"c", ".", ".">>}

\* How many mapping entries, at all depths together, a payload has.
MaxEntries == 3

\* The payloads with exactly n mapping entries: an atom, a list of one
\* atom, a mapping, a list of one mapping.
RECURSIVE Payloads(_), Mappings(_)
Payloads(n) ==
    (IF n = 0 THEN {Atom("1"), List(<<Atom("1")>>)} ELSE {})
    \cup {Dict(d) : d \in Mappings(n)}
    \cup {List(<<Dict(d)>>) : d \in Mappings(n)}

\* A mapping with n entries in all: its first key with a payload of i
\* entries, the other keys a mapping with the rest.
Mappings(n) ==
    IF n = 0
    THEN {EmptyDict}
    ELSE UNION {{(k :> v) @@ rest :
                    v \in Payloads(i),
                    rest \in {r \in Mappings(n - 1 - i) : k \notin DOMAIN r}} :
                k \in DotKeys, i \in 0..(n - 1)}

DotsRets ==
    [id : {Minion}, jid : {Jid("1")}, fun : {"test.ping"},
     return : UNION {Payloads(n) : n \in 0..MaxEntries}]

DatabaseConfig == BuildOpts("mongo", [db |-> OnlyAt({PrimaryDefault})], NoProfile)

InitDots ==
    /\ virtualname = "mongo"
    /\ opts = DatabaseConfig
    /\ salt = TRUE
    /\ db = <<>>
    /\ log = <<>>
    /\ last = Idle
    /\ pc = "idle"
    /\ job \in DotsRets
    /\ bot = Idle
    /\ wire = <<>>

NextDots == Returner(job)

SpecDots == InitDots /\ [][NextDots]_vars

(***************************************************************************)
(* Specification of the two listings, for collections of every kind of     *)
(* name                                                                    *)
(***************************************************************************)
\* How far from JidLen the length of a name may be.
NameSlack == 1

\* Names of sevens of a length near JidLen, with every kind of first
\* character: a digit, a sign, a blank, a letter.
Sevens(first, n) == [i \in 1..n |-> IF i = 1 THEN first ELSE "7"]

Names ==
    {Sevens(first, n) :
        first \in {"1", "+", " ", "x"},
        n \in (JidLen - NameSlack)..(JidLen + NameSlack)}

NamesRets ==
    [id : Names, jid : {Jid("1")}, fun : {"test.ping"}, return : {Atom("True")}]

InitNames ==
    /\ virtualname = "mongo"
    /\ opts = DatabaseConfig
    /\ salt = TRUE
    /\ db = <<>>
    /\ log = <<>>
    /\ last = Idle
    /\ pc = "idle"
    /\ job = NoRet
    /\ bot = Idle
    /\ wire = <<>>

NextNames ==
    \/ \E ret \in NamesRets : Returner(ret)
    \/ \E load \in Loads : SaveLoad(Jid("1"), load)
    \/ GetMinions
    \/ GetJids

SpecNames == InitNames /\ [][NextNames]_vars

(***************************************************************************)
(* The xmpp returner                                                       *)
(***************************************************************************)
\* MissingRequired without the check of the recipient.
MissingRequiredNoRecipient(_options) ==
    \/ ~Truthy(DictGet(_options, "from_jid", None))
    \/ ~Truthy(DictGet(_options, "password", None))

\* The three checks of returner, in the order the code makes them.
MissingRequired(_options) ==
    \/ ~Truthy(DictGet(_options, "from_jid", None))
    \/ ~Truthy(DictGet(_options, "password", None))
    \/ ~Truthy(DictGet(_options, "recipient_jid", None))

\* ret.get(field)
RetGet(ret, field) == IF field \in DOMAIN ret THEN ret[field] ELSE None

\* The five lines of the message, before formatting.
Message(ret) ==
    [id |-> RetGet(ret, "id"), function |-> RetGet(ret, "fun"),
     function_args |-> RetGet(ret, "fun_args"), jid |-> RetGet(ret, "jid"),
     return |-> RetGet(ret, "return")]

\* SendMsgBot(jid, password, recipient, msg) with its two plugins
SendMsgBot(jid, password, recipient, msg) ==
    [jid |-> jid, password |-> password, recipient |-> recipient, msg |-> msg,
     handlers |-> {"session_start"}, plugins |-> {"xep_0030", "xep_0199"}]

Event(ev) == [ev |-> ev]

\* returner(ret) up to the construction of the session
XmppReturner(ret) ==
    LET _options == GetOptions(opts, salt, "xmpp", ret)
    IN  /\ pc \in {"idle", "done"}
        /\ job' = ret
        /\ wire' = <<>>
        /\ IF MissingRequired(_options)
           THEN /\ bot' = Idle
                /\ last' = [op |-> "returner", options |-> _options,
                            result |-> "None"]
                /\ pc' = "done"
           ELSE /\ bot' = SendMsgBot(_options.from_jid, _options.password,
                                     _options.recipient_jid, Message(ret))
                /\ last' = [op |-> "returner", options |-> _options,
                            result |-> "running"]
                /\ pc' = "connect"
        /\ UNCHANGED <<virtualname, opts, salt, db, log>>

\* ConnectResult that answers True whatever connect answered.
ConnectResultAlways(ok) == "True"

\* What returner answers once xmpp.connect() has answered.
ConnectResult(ok) == IF ok THEN "True" ELSE "False"

\* if xmpp.connect(): the server is reached or it is not
Connect ==
    /\ pc = "connect"
    /\ \E ok \in BOOLEAN :
        /\ wire' = Append(wire, Event(IF ok THEN "connect" ELSE "connect_failed"))
        /\ pc' = IF ok THEN "process" ELSE "done"
        /\ last' = [last EXCEPT !.result =
                        IF ok THEN "running" ELSE ConnectResult(FALSE)]
    /\ UNCHANGED <<virtualname, opts, salt, db, log, job, bot>>

\* xmpp.process(block=True): the session starts and the handler runs
SessionStart ==
    /\ pc = "process"
    /\ "session_start" \in bot.handlers
    /\ wire' = Append(wire, Event("session_start"))
    /\ pc' = "start"
    /\ UNCHANGED <<virtualname, opts, salt, db, log, last, job, bot>>

\* xmpp.process(block=True): the stream ends before any session started
\* (the server refused the credentials), and process returns
StreamEnd ==
    /\ pc = "process"
    /\ wire' = Append(wire, Event("stream_end"))
    /\ pc' = "done"
    /\ last' = [last EXCEPT !.result = ConnectResult(TRUE)]
    /\ UNCHANGED <<virtualname, opts, salt, db, log, job, bot>>

\* The statements of SendMsgBot.start, in order.
StartSteps == <<"send_presence", "send_message", "disconnect">>

SendPresence ==
    /\ pc = "start"
    /\ wire' = Append(wire, Event(StartSteps[1]))
    /\ pc' = StartSteps[2]
    /\ UNCHANGED <<virtualname, opts, salt, db, log, last, job, bot>>

SendMessage ==
    /\ pc = "send_message"
    /\ wire' = Append(wire, [ev |-> "send_message", mto |-> bot.recipient,
                             mbody |-> bot.msg, mtype |-> "chat"])
    /\ pc' = StartSteps[3]
    /\ UNCHANGED <<virtualname, opts, salt, db, log, last, job, bot>>

\* self.disconnect(wait=True); process then returns and returner answers
Disconnect ==
    /\ pc = "disconnect"
    /\ wire' = Append(wire, Event("disconnect"))
    /\ pc' = "done"
    /\ last' = [last EXCEPT !.result = ConnectResult(TRUE)]
    /\ UNCHANGED <<virtualname, opts, salt, db, log, job, bot>>

(***************************************************************************)
(* Specification of the xmpp returner                                      *)
(***************************************************************************)
\* Each setting is configured nowhere, as the flat key 'xmpp.<setting>' or
\* in the mapping 'alternative.xmpp'; the profile mapping has any shape.
XmppConfigs ==
    {BuildOpts("xmpp", f, p) :
        f \in [ConfigKeys("xmpp") ->
                 {OnlyAt({}), OnlyAt({PrimaryDefault}), OnlyAt({AltSpecific})}],
        p \in ProfileShapes}

XmppRets ==
    [id : {Minion}, jid : {Jid("1")}, fun : {"test.ping"}, fun_args : {"[]"},
     return : {Atom("True")}]
    \cup [id : {Minion}, jid : {Jid("1")}, fun : {"test.ping"},
          fun_args : {"[]"}, return : {Atom("True")},
          ret_config : {Alternative}]

InitXmpp ==
    /\ virtualname = "xmpp"
    /\ opts \in XmppConfigs
    /\ salt \in BOOLEAN
    /\ db = <<>>
    /\ log = <<>>
    /\ last = Idle
    /\ pc = "idle"
    /\ job = NoRet
    /\ bot = Idle
    /\ wire = <<>>

NextXmpp ==
    \/ \E ret \in XmppRets : XmppReturner(ret)
    \/ Connect
    \/ SessionStart
    \/ StreamEnd
    \/ SendPresence
    \/ SendMessage
    \/ Disconnect

SpecXmpp == InitXmpp /\ [][NextXmpp]_vars

(***************************************************************************)
(* Properties of _get_options (SpecOptions)                                *)
(***************************************************************************)
\* What is configured for a setting in one namespace ns: the entry of the
\* mapping ns if the mapping has the key, otherwise the flat key.
Candidate(o, ns, key) ==
    IF ns \in DOMAIN o /\ key \in DOMAIN o[ns] THEN o[ns][key]
    ELSE IF (ns \o <<key>>) \in DOMAIN o THEN o[ns \o <<key>>]
    ELSE None

\* What is configured for a setting at one of the four levels.
LevelValue(o, name, key, lvl) ==
    LET ns == IF lvl \in {AltSpecific, AltDefault}
              THEN Alternative \o <<name>> ELSE <<name>>
    IN  IF lvl \in {AltSpecific, PrimarySpecific}
        THEN (IF ns \in DOMAIN o /\ key \in DOMAIN o[ns] THEN o[ns][key] ELSE None)
        ELSE (IF (ns \o <<key>>) \in DOMAIN o THEN o[ns \o <<key>>] ELSE None)

LevelOrder == <<AltSpecific, AltDefault, PrimarySpecific, PrimaryDefault>>

\* The value of the first level, in the order of the claim, that has one.
FirstPresent(o, name, key) ==
    LET has == {i \in 1..4 : Truthy(LevelValue(o, name, key, LevelOrder[i]))}
    IN  IF has = {} THEN None
        ELSE LevelValue(o, name, key,
                        LevelOrder[CHOOSE i \in has : \A j \in has : i <= j])

AlternateCall == last.op = "_get_options" /\ RetConfig(last.ret) # <<>>

FirstTruthy(a, p) == IF Truthy(a) THEN a ELSE IF Truthy(p) THEN p ELSE None

Expected(attr) ==
    FirstTruthy(Candidate(opts, Alternative \o <<virtualname>>, Attrs(virtualname)[attr]),
                Candidate(opts, <<virtualname>>, Attrs(virtualname)[attr]))

\* The profile the xmpp returner takes the credentials from, if any.
ProfileUsed ==
    /\ virtualname = "xmpp"
    /\ Expected("xmpp_profile") # None
    /\ <<Expected("xmpp_profile")>> \in DOMAIN opts
    /\ DOMAIN opts[<<Expected("xmpp_profile")>>] # {}

NoFalsyValue ==
    \A key \in ConfigKeys(virtualname), lvl \in Levels :
        LevelValue(opts, virtualname, key, lvl) # Empty

Stored == Documents(db, DatabaseConfig[<<"mongo", "db">>], job.id)

\* A mapping and the mappings nested in it, at any depth, as values of
\* mappings.
RECURSIVE SubMappings(_)
SubMappings(d) ==
    {d} \cup UNION {SubMappings(d[k].d) : k \in {k \in DOMAIN d : d[k].t = "dict"}}

\* C2: _remove_dots is idempotent and recursive: sanitizing the payload
\* the returner stored (the result of _remove_dots) gives that payload
\* again, and so does, for the mapping returned and every mapping nested
\* in it, sanitizing any result of sanitizing it.
C2_Idempotent ==
    job.return.t = "dict" =>
        /\ \A i \in 1..Len(Stored) :
              RemoveDots(Stored[i][job.jid].d) = {Stored[i][job.jid].d}
        /\ last.op = "returner" =>
              \A m \in SubMappings(job.return.d) :
                  \A o \in RemoveDots(m) : RemoveDots(o) = {o}

HasDot(key) == \E i \in 1..Len(key) : key[i] = "."

\* A mapping with a dotted key two mappings deep was sanitized and stored.
C2_Witness ==
    /\ last.op = "returner"
    /\ job.return.t = "dict"
    /\ Len(Stored) > 0
    /\ \E m \in SubMappings(job.return.d) \ {job.return.d} :
          \E k \in DOMAIN m : HasDot(k)

\* Every key of a payload, at every depth, through mappings and lists.
RECURSIVE AllKeys(_)
AllKeys(val) ==
    CASE val.t = "dict" ->
            DOMAIN val.d \cup UNION {AllKeys(val.d[k]) : k \in DOMAIN val.d}
      [] val.t = "list" -> UNION {AllKeys(val.l[i]) : i \in 1..Len(val.l)}
      [] OTHER -> {}

\* C3: for a record whose 'return' is a mapping, every key of the payload
\* stored under the job id, at every nesting depth, is an original key
\* with each '.' replaced by '-', so no stored key contains a '.'; a
\* 'return' that is no mapping is stored unchanged.
C3_StoredKeysSanitized ==
    \A i \in 1..Len(Stored) :
        IF job.return.t = "dict"
        THEN /\ AllKeys(Stored[i][job.jid]) \subseteq
                    {Replace(k) : k \in AllKeys(job.return)}
             /\ \A k \in AllKeys(Stored[i][job.jid]) : ~HasDot(k)
        ELSE Stored[i][job.jid] = job.return

(***************************************************************************)
(* Properties of the two listings (SpecNames)                              *)
(***************************************************************************)
Range(seq) == {seq[i] : i \in 1..Len(seq)}

\* A name int() reads as a number: an optionally signed, non-empty run of
\* digits, with blanks before and after it at most.
Numeric(name) ==
    \E i, j \in 1..Len(name) :
        /\ i <= j
        /\ \A k \in 1..Len(name) : (k < i \/ k > j) => name[k] \in Blanks
        /\ \/ \A k \in i..j : name[k] \in Digits
           \/ /\ name[i] \in {"+", "-"}
              /\ i < j
              /\ \A k \in (i + 1)..j : name[k] \in Digits

Known == CollectionNames(db, last.conn.mdb)

JobIdNames == {name \in Known : Len(name) = JidLen /\ Numeric(name)}

Listed == last.op \in {"get_minions", "get_jids"} /\ "result" \in DOMAIN last

\* C5: get_jids returns exactly the collection names of length 20 that
\* are numeric (that int() accepts), get_minions exactly the other
\* collection names, each name once; so the two results are disjoint and
\* together are the known collection names.
C5_Partition ==
    Listed =>
        /\ Range(last.arg) = Known
        /\ Len(last.result) = Cardinality(Range(last.result))
        /\ last.op = "get_jids" =>
              /\ Range(last.result) = JobIdNames
              /\ Range(MinionsLoop(last.arg)) = Known \ Range(last.result)
        /\ last.op = "get_minions" =>
              /\ Range(last.result) = Known \ JobIdNames
              /\ Range(JidsLoop(last.arg)) = Known \ Range(last.result)

\* get_minions listed a database that holds a signed number of length 20
\* and a name of length 20 that is no number, and returned only the latter.
C5_Witness ==
    /\ Listed
    /\ last.op = "get_minions"
    /\ Sevens("+", JidLen) \in Known \ Range(last.result)
    /\ Sevens("x", JidLen) \in Range(last.result)

(***************************************************************************)
(* Properties of the mongo returner and get_fun (SpecMongo)                *)
(***************************************************************************)
\* C6: get_fun(fun) maps a minion's collection to the most recent job that
\* ran fun: the document of the latest returner call whose 'fun' is fun.
C6_MostRecent ==
    (last.op = "get_fun" /\ "result" \in DOMAIN last) =>
        \A col \in Known :
            LET docs == Documents(db, last.conn.mdb, col)
                ran == {i \in 1..Len(docs) : Matches(docs[i], RunsFun(last.arg))}
            IN  ran # {} =>
                    /\ col \in DOMAIN last.result
                    /\ last.result[col] =
                          docs[CHOOSE i \in ran : \A j \in ran : j <= i]

\* C7: with a username and a password configured (both resolved by
\* _get_options), _get_conn authenticates against the selected database
\* before the connection is used.
C7_Authenticates ==
    (last.op # "none" /\ ~last.conn.raised
        /\ last.conn.options.username # None
        /\ last.conn.options.password # None)
    => last.conn.authenticated

\* The document a completed write call must have stored.
ExpectedDoc(call) ==
    IF call.op = "save_load" THEN call.load
    ELSE [key \in {call.ret.jid, FunKey}
                  \cup (IF "out" \in DOMAIN call.ret THEN {OutKey} ELSE {}) |->
            IF key = FunKey THEN Atom(call.ret.fun)
            ELSE IF key = OutKey /\ "out" \in DOMAIN call.ret THEN Atom(call.ret.out)
            ELSE call.ret.return]

\* The calls of the log that wrote to one collection, in order.
RECURSIVE WritesTo(_, _, _)
WritesTo(calls, mdb, col) ==
    IF calls = <<>> THEN <<>>
    ELSE (IF Head(calls).mdb = mdb /\ Head(calls).col = col
          THEN <<ExpectedDoc(Head(calls))>> ELSE <<>>)
         \o WritesTo(Tail(calls), mdb, col)

\* C9: every successful returner call inserts exactly one document,
\* {jid: payload, 'fun': fun} plus 'out' exactly when the record has
\* 'out', into the collection named by the record's minion id, and changes
\* no other collection, without deduplication: every collection holds, in
\* order, one such document per completed call that wrote to it, so n
\* deliveries of one record leave n documents.
C9_OneDocumentPerCall ==
    /\ \A i \in 1..Len(log) : log[i].op = "returner" => log[i].col = log[i].ret.id
    /\ \A mdb \in DOMAIN db \cup {log[i].mdb : i \in 1..Len(log)} :
        \A col \in CollectionNames(db, mdb) \cup {log[i].col : i \in 1..Len(log)} :
            Documents(db, mdb, col) = WritesTo(log, mdb, col)

\* One record with an output mode was delivered twice and its collection
\* holds two documents.
C9_Witness ==
    /\ Len(log) = 2
    /\ log[1] = log[2]
    /\ log[1].op = "returner"
    /\ "out" \in DOMAIN log[1].ret
    /\ Len(Documents(db, log[1].mdb, log[1].ret.id)) = 2

(***************************************************************************)
(* Properties of the xmpp returner (SpecXmpp)                              *)
(***************************************************************************)
Required == {"from_jid", "password", "recipient_jid"}

Called == last.op = "returner"

AnyRequiredAbsent == \E attr \in Required : last.options[attr] \in {None, Empty}

Sent(ev) == {i \in 1..Len(wire) : wire[i].ev = ev}

\* C4: when any of from_jid, password and recipient_jid resolves to
\* absent, the call is over at once with a falsy answer, and it has
\* constructed no session, attempted no connection and sent nothing.
C4_AbortsWithoutSession ==
    (Called /\ AnyRequiredAbsent) =>
        /\ pc = "done"
        /\ last.result \in {"None", "False"}
        /\ bot = Idle
        /\ wire = <<>>

\* A call with sender and password resolved and no recipient.
C4_Witness ==
    /\ Called
    /\ Truthy(last.options.from_jid)
    /\ Truthy(last.options.password)
    /\ last.options.recipient_jid = None
    /\ pc = "done"

\* C8: with a profile configured that names a mapping of the documented
\* shape (entries 'jid' and 'password') and a recipient configured,
\* _get_options takes sender and password from the profile and the
\* returner goes on to send.
C8_ProfileSupplies ==
    (/\ Called
     /\ last.options.xmpp_profile = ProfileName
     /\ CfgDefault(opts, <<ProfileName>>, NoProfile) = DocProfile
     /\ Truthy(last.options.recipient_jid))
    => /\ last.options.from_jid = DocProfile.jid
       /\ last.options.password = DocProfile.password
       /\ "handlers" \in DOMAIN bot

\* C10: in a call with the three required settings present, connect is
\* attempted once at most; a message is sent at most once, to the resolved
\* recipient, right after the presence that follows the session start;
\* once the call is over a sent message is followed by the disconnect,
\* the answer is True iff connect succeeded, and after a failed connect it
\* is False with nothing else done.
C10_OneMessagePerSession ==
    (Called /\ ~AnyRequiredAbsent) =>
        /\ Cardinality(Sent("connect") \cup Sent("connect_failed")) <= 1
        /\ Cardinality(Sent("send_message")) <= 1
        /\ \A i \in Sent("send_message") :
              /\ i >= 4
              /\ wire[1].ev = "connect"
              /\ wire[i - 2].ev = "session_start"
              /\ wire[i - 1].ev = "send_presence"
              /\ wire[i].mto = last.options.recipient_jid
              /\ wire[i].mtype = "chat"
              /\ pc = "done" => \E j \in Sent("disconnect") : j > i
        /\ pc = "done" =>
              /\ last.result = "True" <=> Sent("connect") # {}
              /\ Sent("connect_failed") # {} =>
                    last.result = "False" /\ Len(wire) = 1
        /\ pc # "done" => last.result = "running"

\* A call that connected, sent its message and returned True, and (in
\* another behaviour) one whose connect failed.
C10_Witness ==
    /\ Called
    /\ pc = "done"
    /\ Sent("send_message") # {}
    /\ last.result = "True"

====
